---- MODULE Spec2Model ----
(***************************************************************************)
(* Model of src/main.py: the Telegram message handler generate_document,   *)
(* which relays a user's text to the OpenRouter chat-completion endpoint   *)
(* and sends the generated text (or an error text) back to the chat.       *)
(*                                                                         *)
(* generate_document is a coroutine.  Its only suspension points are the   *)
(* awaited update.message.reply_text calls; requests.post is a blocking    *)
(* call, so everything between two awaits runs atomically.  One action of  *)
(* the model is one such atomic stretch of the handler, ending with the    *)
(* awaited send and its outcome (accepted by the chat transport, or an     *)
(* exception raised at the await).                                         *)
(*                                                                         *)
(* main() builds the Application with its defaults (no concurrent_updates, *)
(* a blocking handler), so the updates are processed one by one: the       *)
(* handler is awaited to its end, returning or raising, before the next    *)
(* inbound message is dispatched to it.  An exception that leaves the      *)
(* handler is logged by the Application, and the process goes on.          *)
(*                                                                         *)
(* Cyrillic literals of the source are transliterated to ASCII.            *)
(***************************************************************************)
EXTENDS Integers, Sequences, FiniteSets, TLC

\* Number of inbound messages, each dispatched to generate_document.
NumInv == 2

Invocations == 1..NumInv

-----------------------------------------------------------------------------
(* Values                                                                  *)

\* Python's None, for an unset environment variable or a JSON null.
None == "<None>"

\* src/main.py:22
OPENROUTER_URL == "https://openrouter.ai/api/v1/chat/completions"

\* src/main.py:27-32 (abridged; it is one fixed string)
SYSTEM_PROMPT == "Ty - vysokokvalifitsirovannyy II-agent po sozdaniyu dokumentov i dannykh. ... Otvechay tol'ko sgenerirovannym kontentom."

\* src/main.py:41
CONFIG_ERROR_TEXT == "Oshibka: Ne nastroen klyuch OpenRouter API ili imya modeli."

\* src/main.py:45
STARTED_TEXT == "Zapros otpravlen. Idet generatsiya dokumenta..."

\* src/main.py:76, the literal part of the f-string
TRANSPORT_ERROR_PREFIX == "Proizoshla oshibka pri obrashchenii k AI: "

\* src/main.py:79
GENERIC_ERROR_TEXT == "Proizoshla neizvestnaya oshibka. Poprobuyte snova."

\* src/main.py:61, timeout=60
TIMEOUT == 60

\* ParseMode.MARKDOWN_V2 (src/main.py:71); reply_text's default is no parse mode.
MARKDOWN_V2 == "MarkdownV2"

\* What os.environ.get can return for OPENROUTER_API_KEY and MODEL.
KeyValues == {None, "", "sk-or-v1-key"}
ModelValues == {None, "", "openai/gpt-4o-mini"}

\* update.message.text of the inbound messages.
UserTexts == {"", "  Plan: a|b - c.  "}

-----------------------------------------------------------------------------
(* JSON values of a response body, tagged by their type.                   *)

JObj(f) == [obj |-> f]
JArr(s) == [arr |-> s]
JStr(s) == [str |-> s]
JNull == [null |-> TRUE]

IsObj(x) == "obj" \in DOMAIN x
IsArr(x) == "arr" \in DOMAIN x
IsStr(x) == "str" \in DOMAIN x

\* A body that is not JSON at all.
NotJSON == [raw |-> "<html>502 Bad Gateway</html>"]

\* {"choices": [{"message": {"content": c}}]}
BodyWithContent(c) ==
    JObj([choices |-> JArr(<<JObj([message |-> JObj([content |-> c])])>>)])

\* {"error": "overloaded"}: no "choices" key
BodyNoChoices == JObj([error |-> JStr("overloaded")])
\* {"choices": []}
BodyEmptyChoices == JObj([choices |-> JArr(<<>>)])
\* {"choices": [{"finish_reason": "stop"}]}: no "message" key
BodyNoMessage == JObj([choices |-> JArr(<<JObj([finish_reason |-> JStr("stop")])>>)])
\* {"choices": [{"message": {"role": "assistant"}}]}: no "content" key
BodyNoContent ==
    JObj([choices |-> JArr(<<JObj([message |-> JObj([role |-> JStr("assistant")])])>>)])

\* The generated texts the provider returns.
Contents == {"Hello", " | a | b |. Done! "}

MalformedBodies ==
    {NotJSON, BodyNoChoices, BodyEmptyChoices, BodyNoMessage, BodyNoContent}

WellFormedBodies == {BodyWithContent(JStr(c)) : c \in Contents}

\* {"choices": [{"message": {"content": null}}]}
BodyNullContent == BodyWithContent(JNull)

\* What the provider (or the network) does with one POST: the connection
\* fails, or a response with this status and body arrives after `latency`
\* seconds.
ProviderBehaviours ==
    {[connect |-> FALSE]}
    \cup {[connect |-> TRUE, latency |-> 1, status |-> 200, body |-> b] :
            b \in MalformedBodies \cup WellFormedBodies \cup {BodyNullContent}}
    \cup {[connect |-> TRUE, latency |-> TIMEOUT + 1, status |-> 200,
            body |-> BodyWithContent(JStr("Hello"))]}
    \cup {[connect |-> TRUE, latency |-> 1, status |-> s,
            body |-> BodyWithContent(JStr("Hello"))] : s \in {304, 500}}

-----------------------------------------------------------------------------
VARIABLES
    OPENROUTER_KEY,   \* module-level, read once at import (src/main.py:18)
    MODEL_NAME,       \* module-level, read once at import (src/main.py:24)
    json_error_is_request_exception,
                      \* the installed requests: from 2.27 on, Response.json()
                      \* raises requests.exceptions.JSONDecodeError, a
                      \* RequestException; before, a plain ValueError
    pc,               \* pc[i]: where invocation i of generate_document is
    user_request,     \* local of invocation i
    ai_response_text, \* local of invocation i
    e,                \* the exception bound by `except ... as e`, or escaping
    log               \* log[i]: what invocation i did to the outside world:
                      \* its chat sends and its POSTs, in order

vars == <<OPENROUTER_KEY, MODEL_NAME, json_error_is_request_exception,
          pc, user_request, ai_response_text, e, log>>

config == <<OPENROUTER_KEY, MODEL_NAME, json_error_is_request_exception>>

NoExc == [cls |-> "", msg |-> ""]
Exc(cls, msg) == [cls |-> cls, msg |-> msg]

Ok(v) == [ok |-> TRUE, val |-> v]
Raise(x) == [ok |-> FALSE, exc |-> x]

-----------------------------------------------------------------------------
(* The pure parts of the handler                                           *)

\* Python truthiness of an Optional[str]: `not x` is true for None and "".
Truthy(x) == x # None /\ x # ""

\* A mis-written check that tests only `is None`.
ConfigMissing_IsNoneOnly == OPENROUTER_KEY = None \/ MODEL_NAME = None

\* src/main.py:40  `if not OPENROUTER_KEY or not MODEL_NAME`
ConfigMissing == ~Truthy(OPENROUTER_KEY) \/ ~Truthy(MODEL_NAME)

\* str.strip(): leading and trailing spaces removed.
RECURSIVE LStrip(_)
LStrip(t) ==
    IF Len(t) > 0 /\ SubSeq(t, 1, 1) = " " THEN LStrip(SubSeq(t, 2, Len(t))) ELSE t

RECURSIVE RStrip(_)
RStrip(t) ==
    IF Len(t) > 0 /\ SubSeq(t, Len(t), Len(t)) = " "
    THEN RStrip(SubSeq(t, 1, Len(t) - 1)) ELSE t

Strip(t) == LStrip(RStrip(t))

\* A composer that trims the user text.
Data_Stripped(t) ==
    [model |-> MODEL_NAME,
     messages |-> <<[role |-> "system", content |-> SYSTEM_PROMPT],
                    [role |-> "user", content |-> Strip(t)]>>]

\* src/main.py:48-54  the request payload `data`
Data(t) ==
    [model |-> MODEL_NAME,
     messages |-> <<[role |-> "system", content |-> SYSTEM_PROMPT],
                    [role |-> "user", content |-> t]>>]

\* src/main.py:55-58
Headers ==
    [Authorization |-> "Bearer " \o OPENROUTER_KEY,
     ContentType |-> "application/json"]

\* requests.post(OPENROUTER_URL, headers=..., json=..., timeout=60) against a
\* provider behaving as b: a Response, or ConnectionError / ReadTimeout.
RequestsPost(b) ==
    IF ~b.connect
    THEN Raise(Exc("ConnectionError", "Failed to establish a new connection"))
    ELSE IF b.latency > TIMEOUT
    THEN Raise(Exc("ReadTimeout", "Read timed out. (read timeout=" \o ToString(TIMEOUT) \o ")"))
    ELSE Ok([status |-> b.status, body |-> b.body])

\* response.raise_for_status(): HTTPError for 4xx and 5xx, nothing otherwise.
RaiseForStatus(response) ==
    IF response.status \in 400..499
    THEN Raise(Exc("HTTPError", ToString(response.status) \o " Client Error for url: " \o OPENROUTER_URL))
    ELSE IF response.status \in 500..599
    THEN Raise(Exc("HTTPError", ToString(response.status) \o " Server Error for url: " \o OPENROUTER_URL))
    ELSE Ok(response)

\* response.json()
ResponseJson(response) ==
    IF "raw" \in DOMAIN response.body
    THEN Raise(Exc("JSONDecodeError", "Expecting value: line 1 column 1 (char 0)"))
    ELSE Ok(response.body)

\* Python x[k] for a str key k.
GetKey(x, k) ==
    IF IsObj(x)
    THEN IF k \in DOMAIN x.obj THEN Ok(x.obj[k]) ELSE Raise(Exc("KeyError", "'" \o k \o "'"))
    ELSE IF IsArr(x)
    THEN Raise(Exc("TypeError", "list indices must be integers or slices, not str"))
    ELSE IF IsStr(x)
    THEN Raise(Exc("TypeError", "string indices must be integers"))
    ELSE Raise(Exc("TypeError", "'NoneType' object is not subscriptable"))

\* Python x[n] for an int n >= 0.  Indexing a str gives its n-th character.
GetIndex(x, n) ==
    IF IsArr(x)
    THEN IF n < Len(x.arr) THEN Ok(x.arr[n + 1]) ELSE Raise(Exc("IndexError", "list index out of range"))
    ELSE IF IsObj(x)
    THEN Raise(Exc("KeyError", ToString(n)))
    ELSE IF IsStr(x)
    THEN IF n < Len(x.str) THEN Ok(JStr(SubSeq(x.str, n + 1, n + 1))) ELSE Raise(Exc("IndexError", "string index out of range"))
    ELSE Raise(Exc("TypeError", "'NoneType' object is not subscriptable"))

\* The Python value of a JSON string or null.
PyValue(x) == IF IsStr(x) THEN x.str ELSE None

\* An extraction that strips the generated text.
Extract_Stripped(response) ==
    LET j == ResponseJson(response) IN
    IF ~j.ok THEN j ELSE
    LET c == GetKey(j.val, "choices") IN
    IF ~c.ok THEN c ELSE
    LET f == GetIndex(c.val, 0) IN
    IF ~f.ok THEN f ELSE
    LET m == GetKey(f.val, "message") IN
    IF ~m.ok THEN m ELSE
    LET t == GetKey(m.val, "content") IN
    IF ~t.ok THEN t ELSE Ok(Strip(PyValue(t.val)))

\* src/main.py:65  response.json()["choices"][0]["message"]["content"]
Extract(response) ==
    LET j == ResponseJson(response) IN
    IF ~j.ok THEN j ELSE
    LET c == GetKey(j.val, "choices") IN
    IF ~c.ok THEN c ELSE
    LET f == GetIndex(c.val, 0) IN
    IF ~f.ok THEN f ELSE
    LET m == GetKey(f.val, "message") IN
    IF ~m.ok THEN m ELSE
    LET t == GetKey(m.val, "content") IN
    IF ~t.ok THEN t ELSE Ok(PyValue(t.val))

\* src/main.py:61-65  the synchronous part of the try body after the payload
\* is built: the generated text, or the exception raised on the way.
TryBody(b) ==
    LET r == RequestsPost(b) IN
    IF ~r.ok THEN r ELSE
    LET s == RaiseForStatus(r.val) IN
    IF ~s.ok THEN s ELSE Extract(s.val)

\* isinstance(x, requests.exceptions.RequestException)
IsRequestException(x) ==
    \/ x.cls \in {"ConnectionError", "ReadTimeout", "HTTPError"}
    \/ x.cls = "JSONDecodeError" /\ json_error_is_request_exception

\* except clauses in the wrong order: `except Exception` first catches all.
ExceptClause_GenericFirst(x) == "except_generic"

\* src/main.py:74,77  the except clause that catches x, raised in the try body
ExceptClause(x) ==
    IF IsRequestException(x) THEN "except_request" ELSE "except_generic"

\* What reply_text raises when the chat transport rejects or drops a send.
TelegramError == Exc("TelegramError", "the chat transport did not accept the message")

\* src/main.py:76  f"...: {e}"
TransportErrorText(x) == TRANSPORT_ERROR_PREFIX \o x.msg

SendEvent(text, parse_mode, ok) ==
    [ev |-> "send", text |-> text, parse_mode |-> parse_mode, ok |-> ok]

PostEvent(url, headers, json, timeout, b) ==
    [ev |-> "post", url |-> url, headers |-> headers, json |-> json,
     timeout |-> timeout, provider |-> b]

-----------------------------------------------------------------------------
(* The handler                                                             *)

Init ==
    /\ OPENROUTER_KEY \in KeyValues
    /\ MODEL_NAME \in ModelValues
    /\ json_error_is_request_exception \in BOOLEAN
    /\ pc = [i \in Invocations |-> "idle"]
    /\ user_request = [i \in Invocations |-> None]
    /\ ai_response_text = [i \in Invocations |-> None]
    /\ e = [i \in Invocations |-> NoExc]
    /\ log = [i \in Invocations |-> <<>>]

\* await update.message.reply_text(text, parse_mode=...) by invocation i: the
\* send is attempted; it is accepted (ok) or raises TelegramError at the await.
\* A text of None is never accepted.
ReplyText(i, text, parse_mode, ok) ==
    log' = [log EXCEPT ![i] = Append(@, SendEvent(text, parse_mode, ok /\ text # None))]

\* The end of an invocation: the handler returned, or exception x left it.
\* Its locals are gone with its frame.
Returned(i) ==
    /\ pc' = [pc EXCEPT ![i] = "done"]
    /\ ai_response_text' = [ai_response_text EXCEPT ![i] = None]
    /\ e' = [e EXCEPT ![i] = NoExc]

Escaped(i, x) ==
    /\ pc' = [pc EXCEPT ![i] = "raised"]
    /\ ai_response_text' = [ai_response_text EXCEPT ![i] = None]
    /\ e' = [e EXCEPT ![i] = x]

\* src/main.py:90-93  the i-th inbound message is dispatched to the handler
\* once the handler has returned or raised for every message before it.
Dispatched(i) == \A j \in 1..(i - 1) : pc[j] \in {"done", "raised"}

\* src/main.py:37-42  configuration missing: the error reply, then return.
\* The send is outside any try: if it raises, the exception escapes.
ConfigError(i, t, ok) ==
    /\ pc[i] = "idle"
    /\ Dispatched(i)
    /\ ConfigMissing
    /\ user_request' = [user_request EXCEPT ![i] = t]
    /\ ReplyText(i, CONFIG_ERROR_TEXT, None, ok)
    /\ IF ok THEN Returned(i) ELSE Escaped(i, TelegramError)
    /\ UNCHANGED config

\* The "started" send placed inside the try with its failure swallowed.
AfterStarted_InsideTry(ok) == "try"

\* Where the handler goes after the "started" send (src/main.py:45), which is
\* awaited before the try statement begins (src/main.py:47).
AfterStarted(ok) == IF ok THEN "try" ELSE "raised"

\* src/main.py:37-45  configuration present: the "started" notification.
Started(i, t, ok) ==
    /\ pc[i] = "idle"
    /\ Dispatched(i)
    /\ ~ConfigMissing
    /\ user_request' = [user_request EXCEPT ![i] = t]
    /\ ReplyText(i, STARTED_TEXT, None, ok)
    /\ IF AfterStarted(ok) = "raised"
       THEN Escaped(i, TelegramError)
       ELSE /\ pc' = [pc EXCEPT ![i] = AfterStarted(ok)]
            /\ UNCHANGED <<ai_response_text, e>>
    /\ UNCHANGED config

\* src/main.py:47-65  the payload is built and POSTed (blocking), the status
\* checked and the text extracted; an exception goes to its except clause.
Request(i, b) ==
    /\ pc[i] = "try"
    /\ log' = [log EXCEPT ![i] =
                 Append(@, PostEvent(OPENROUTER_URL, Headers, Data(user_request[i]), TIMEOUT, b))]
    /\ LET r == TryBody(b) IN
       IF r.ok
       THEN /\ ai_response_text' = [ai_response_text EXCEPT ![i] = r.val]
            /\ pc' = [pc EXCEPT ![i] = "reply"]
            /\ UNCHANGED e
       ELSE /\ e' = [e EXCEPT ![i] = r.exc]
            /\ pc' = [pc EXCEPT ![i] = ExceptClause(r.exc)]
            /\ UNCHANGED ai_response_text
    /\ UNCHANGED <<config, user_request>>

\* The generic reply sent whether or not the text send raised (a `finally`).
AfterReply_AlwaysGeneric(ok) == "except_generic"

\* The text send placed after the try statement: its exception escapes.
AfterReply_Escapes(ok) == IF ok THEN "done" ELSE "raised"

\* Where the handler goes after the send of the generated text: the send is
\* inside the try, so its exception is caught by an except clause.
AfterReply(ok) == IF ok THEN "done" ELSE ExceptClause(TelegramError)

\* src/main.py:69-72  the generated text is sent with MarkdownV2.
Reply(i, ok) ==
    /\ pc[i] = "reply"
    /\ ReplyText(i, ai_response_text[i], MARKDOWN_V2, ok)
    /\ LET sent == ok /\ ai_response_text[i] # None IN
       CASE AfterReply(sent) = "done" -> Returned(i)
         [] AfterReply(sent) = "raised" -> Escaped(i, TelegramError)
         [] OTHER -> /\ pc' = [pc EXCEPT ![i] = AfterReply(sent)]
                     /\ e' = [e EXCEPT ![i] = TelegramError]
                     /\ UNCHANGED ai_response_text
    /\ UNCHANGED <<config, user_request>>

\* src/main.py:74-76  the transport-error reply.  An exception raised inside
\* an except clause is not caught by its sibling clauses: it escapes.
ExceptRequest(i, ok) ==
    /\ pc[i] = "except_request"
    /\ ReplyText(i, TransportErrorText(e[i]), None, ok)
    /\ IF ok THEN Returned(i) ELSE Escaped(i, TelegramError)
    /\ UNCHANGED <<config, user_request>>

\* src/main.py:77-79  the generic-error reply.
ExceptGeneric(i, ok) ==
    /\ pc[i] = "except_generic"
    /\ ReplyText(i, GENERIC_ERROR_TEXT, None, ok)
    /\ IF ok THEN Returned(i) ELSE Escaped(i, TelegramError)
    /\ UNCHANGED <<config, user_request>>

Next ==
    \E i \in Invocations :
        \/ \E t \in UserTexts, ok \in BOOLEAN : ConfigError(i, t, ok)
        \/ \E t \in UserTexts, ok \in BOOLEAN : Started(i, t, ok)
        \/ \E b \in ProviderBehaviours : Request(i, b)
        \/ \E ok \in BOOLEAN : Reply(i, ok)
        \/ \E ok \in BOOLEAN : ExceptRequest(i, ok)
        \/ \E ok \in BOOLEAN : ExceptGeneric(i, ok)

Spec == Init /\ [][Next]_vars

-----------------------------------------------------------------------------
(* Reading an invocation's log                                             *)

IsSend(x) == x.ev = "send"
IsPost(x) == x.ev = "post"

\* The "started" notification: the fixed status text, no parse mode.
IsAck(x) == IsSend(x) /\ x.text = STARTED_TEXT /\ x.parse_mode = None

Posts(i) == SelectSeq(log[i], IsPost)
Acks(i) == SelectSeq(log[i], IsAck)
\* Every send that is not the "started" notification: the reply attempts.
Replies(i) == SelectSeq(log[i], LAMBDA x : IsSend(x) /\ ~IsAck(x))

Finished(i) == pc[i] \in {"done", "raised"}

HasPosted(i) == Posts(i) # <<>>
\* The provider's behaviour at invocation i's POST.
Provider(i) == Posts(i)[1].provider
PostIndex(i) == CHOOSE k \in 1..Len(log[i]) : IsPost(log[i][k])
AfterPost(i) == SubSeq(log[i], PostIndex(i) + 1, Len(log[i]))

HasPrefix(text, prefix) ==
    Len(text) > Len(prefix) /\ SubSeq(text, 1, Len(prefix)) = prefix

\* The provider key or the model identifier is unset or empty.
ConfigurationUnset ==
    OPENROUTER_KEY \in {None, ""} \/ MODEL_NAME \in {None, ""}

\* The POST got a response in time.
Answered(b) == b.connect /\ b.latency <= TIMEOUT
SuccessStatus(b) == Answered(b) /\ b.status \in 200..299

-----------------------------------------------------------------------------
(* C1: with OPENROUTER_KEY or MODEL_NAME unset or empty, an invocation     *)
(* never issues a POST, and it ends having attempted exactly one send, the *)
(* configuration-error text.                                               *)
C1_NoPostWithoutConfig ==
    \A i \in Invocations :
        ConfigurationUnset =>
            /\ Posts(i) = <<>>
            /\ pc[i] \in {"idle", "done", "raised"}
            /\ pc[i] # "idle" =>
                  /\ Len(log[i]) = 1
                  /\ IsSend(log[i][1])
                  /\ log[i][1].text = CONFIG_ERROR_TEXT

\* An invocation with the key set and the model name empty has returned.
C1_Witness ==
    \E i \in Invocations :
        /\ Truthy(OPENROUTER_KEY) /\ MODEL_NAME = ""
        /\ pc[i] = "done"
        /\ log[i] = <<SendEvent(CONFIG_ERROR_TEXT, None, TRUE)>>

-----------------------------------------------------------------------------
(* C2, as claimed: every invocation, whatever its outcome, performs        *)
(* exactly one POST, one "started" notification and one final reply.       *)
(* Stated here for the invocations that return normally, which the claim   *)
(* covers.                                                                 *)
C2_ExactlyOneOfEach_Original ==
    \A i \in Invocations :
        pc[i] = "done" =>
            /\ Len(Posts(i)) = 1
            /\ Len(Acks(i)) = 1
            /\ Len(Replies(i)) = 1

(* C2, amended: never more than one POST and one "started" notification.   *)
(* Configuration missing: no POST, no notification, one reply attempt (the *)
(* configuration error).  Configuration present: exactly one notification  *)
(* attempt; if it raises, the exception escapes with no POST and no reply; *)
(* otherwise exactly one POST, then one reply attempt, or two when the     *)
(* first, the generated text, was rejected (the second is the generic      *)
(* error text).                                                            *)
C2_SideEffectCounts ==
    \A i \in Invocations :
        /\ Len(Posts(i)) <= 1
        /\ Len(Acks(i)) <= 1
        /\ Finished(i) /\ ConfigurationUnset =>
              Len(Posts(i)) = 0 /\ Len(Acks(i)) = 0 /\ Len(Replies(i)) = 1
        /\ Finished(i) /\ ~ConfigurationUnset =>
              /\ Len(Acks(i)) = 1
              /\ IF Acks(i)[1].ok
                 THEN /\ Len(Posts(i)) = 1
                      /\ \/ Len(Replies(i)) = 1
                         \/ /\ Len(Replies(i)) = 2
                            /\ Replies(i)[1].parse_mode = MARKDOWN_V2
                            /\ ~Replies(i)[1].ok
                            /\ Replies(i)[2].text = GENERIC_ERROR_TEXT
                 ELSE /\ pc[i] = "raised"
                      /\ Len(Posts(i)) = 0
                      /\ Len(Replies(i)) = 0

\* Both invocations are over, one with a single reply and one with two.
C2_Witness ==
    \E i, j \in Invocations :
        /\ pc[i] = "done" /\ Len(Posts(i)) = 1 /\ Len(Replies(i)) = 1
        /\ pc[j] = "done" /\ Len(Posts(j)) = 1 /\ Len(Replies(j)) = 2

-----------------------------------------------------------------------------
(* C3: if sending the "started" notification fails, the invocation still   *)
(* issues the POST and produces a final reply; the notification's failure  *)
(* is not the invocation's result.                                         *)
C3_AckFailureDoesNotAbort ==
    \A i \in Invocations :
        (Finished(i) /\ Acks(i) # <<>> /\ ~Acks(i)[1].ok) =>
            /\ HasPosted(i)
            /\ Replies(i) # <<>>

-----------------------------------------------------------------------------
(* C4, as claimed: when the POST ends in a non-success HTTP status, a      *)
(* connection error or a timeout, the final reply is the transport-error   *)
(* text with the error description appended, no generated text is sent,    *)
(* and the handler returns without raising.                                *)
TransportFailure_Original(b) ==
    ~b.connect \/ b.latency > TIMEOUT \/ b.status \notin 200..299

TransportFailure(b) ==
    ~b.connect \/ b.latency > TIMEOUT \/ b.status \in 400..599

-----------------------------------------------------------------------------
(* C5: when the POST returns a success status but the body is not JSON or  *)
(* lacks choices[0].message.content, the final reply is the fixed generic  *)
(* text, never the transport-error text with error detail, and the handler *)
(* returns without raising.                                                *)
LacksContent(b) == b.body \in MalformedBodies

C5_MalformedBodyGenericError ==
    \A i \in Invocations :
        (HasPosted(i) /\ SuccessStatus(Provider(i)) /\ LacksContent(Provider(i))) =>
            /\ pc[i] # "except_request"
            /\ \A k \in 1..Len(AfterPost(i)) :
                  AfterPost(i)[k].text = GENERIC_ERROR_TEXT
            /\ Finished(i) => pc[i] = "done" /\ Len(AfterPost(i)) = 1

-----------------------------------------------------------------------------
(* C6, as claimed: when the POST returns a success status with             *)
(* choices[0].message.content a string s, the text of the final reply sent *)
(* to the chat is exactly s.                                               *)
HasContent(b, s) == b.body = BodyWithContent(JStr(s))

C6_TextUnchanged_Original ==
    \A i \in Invocations : \A s \in Contents :
        (Finished(i) /\ HasPosted(i) /\ SuccessStatus(Provider(i))
                     /\ HasContent(Provider(i), s)) =>
            /\ AfterPost(i) # <<>>
            /\ AfterPost(i)[Len(AfterPost(i))].text = s

(* C6, amended: the first reply attempted after such a POST carries        *)
(* exactly s, with MarkdownV2 as parse mode; it is the final reply if the  *)
(* chat transport accepts it, and if not, the generic error text follows.  *)
C6_TextUnchanged ==
    \A i \in Invocations : \A s \in Contents :
        (HasPosted(i) /\ SuccessStatus(Provider(i)) /\ HasContent(Provider(i), s)) =>
            /\ pc[i] = "reply" => ai_response_text[i] = s /\ AfterPost(i) = <<>>
            /\ pc[i] # "reply" =>
                  /\ AfterPost(i) # <<>>
                  /\ IsSend(AfterPost(i)[1])
                  /\ AfterPost(i)[1].text = s
                  /\ AfterPost(i)[1].parse_mode = MARKDOWN_V2
                  /\ AfterPost(i)[1].ok => pc[i] = "done" /\ Len(AfterPost(i)) = 1
                  /\ ~AfterPost(i)[1].ok /\ Len(AfterPost(i)) > 1 =>
                        AfterPost(i)[2].text = GENERIC_ERROR_TEXT

\* Generated text with leading and trailing spaces has been delivered.
C6_Witness ==
    \E i \in Invocations : \E s \in Contents :
        /\ Strip(s) # s
        /\ pc[i] = "done" /\ HasPosted(i)
        /\ SuccessStatus(Provider(i)) /\ HasContent(Provider(i), s)
        /\ AfterPost(i) = <<SendEvent(s, MARKDOWN_V2, TRUE)>>

-----------------------------------------------------------------------------
(* C7: with configuration present, every invocation issues its own POST:   *)
(* once all invocations are over, the number of POSTs equals the number of *)
(* invocations, whatever the user texts (two equal texts included).        *)
C7_OnePostPerInvocation ==
    (~ConfigurationUnset /\ \A i \in Invocations : Finished(i)) =>
        Cardinality({i \in Invocations : Len(Posts(i)) = 1}) = NumInv

-----------------------------------------------------------------------------
(* C8: for every user text t, the empty string included, the JSON payload  *)
(* of the POST has "model" equal to MODEL_NAME and "messages" equal to the *)
(* system message with SYSTEM_PROMPT followed by the user message with t   *)
(* verbatim.                                                               *)
C8_RequestPayload ==
    \A i \in Invocations : \A k \in 1..Len(Posts(i)) :
        LET body == Posts(i)[k].json IN
            /\ body.model = MODEL_NAME
            /\ Len(body.messages) = 2
            /\ body.messages[1] = [role |-> "system", content |-> SYSTEM_PROMPT]
            /\ body.messages[2] = [role |-> "user", content |-> user_request[i]]

\* One POST carries the empty text, another a text with surrounding spaces.
C8_Witness ==
    \E i, j \in Invocations :
        /\ HasPosted(i) /\ user_request[i] = ""
        /\ HasPosted(j) /\ Strip(user_request[j]) # user_request[j]
        /\ Posts(j)[1].json.messages[2].content = user_request[j]

-----------------------------------------------------------------------------
(* C9: within one invocation the "started" notification comes first,       *)
(* before any other reply and before the POST; the POST is over before any *)
(* final reply is sent; and nothing is sent after a delivered final reply. *)
C9_EventOrder ==
    \A i \in Invocations : \A k \in 1..Len(log[i]) :
        /\ IsAck(log[i][k]) => k = 1
        /\ IsPost(log[i][k]) => k = 2 /\ IsAck(log[i][1]) /\ log[i][1].ok
        /\ (IsSend(log[i][k]) /\ k > 1) =>
              \E j \in 1..(k - 1) : IsPost(log[i][j])
        /\ (IsSend(log[i][k]) /\ ~IsAck(log[i][k]) /\ log[i][k].ok) =>
              k = Len(log[i]) /\ pc[i] = "done"

\* A full run: notification, POST, delivered reply.
C9_Witness ==
    \E i \in Invocations :
        /\ pc[i] = "done" /\ Len(log[i]) = 3
        /\ IsAck(log[i][1]) /\ IsPost(log[i][2]) /\ IsSend(log[i][3])
        /\ log[i][3].parse_mode = MARKDOWN_V2

-----------------------------------------------------------------------------
(* C10: if the text was extracted but sending it to the chat fails, the    *)
(* handler issues no further POST and does not resend the text; it sends   *)
(* the generic error text as a second reply attempt; if that send fails    *)
(* too, the exception escapes generate_document.                           *)
TextSendFailed(i) ==
    /\ HasPosted(i)
    /\ AfterPost(i) # <<>>
    /\ AfterPost(i)[1].parse_mode = MARKDOWN_V2
    /\ ~AfterPost(i)[1].ok

C10_FailedTextSend ==
    \A i \in Invocations :
        TextSendFailed(i) =>
            /\ Len(Posts(i)) = 1
            /\ pc[i] \in {"except_generic", "done", "raised"}
            /\ pc[i] = "except_generic" => Len(AfterPost(i)) = 1
            /\ Finished(i) =>
                  /\ Len(AfterPost(i)) = 2
                  /\ AfterPost(i)[2] =
                        SendEvent(GENERIC_ERROR_TEXT, None, pc[i] = "done")
                  /\ pc[i] = "raised" => e[i] = TelegramError

\* The text send failed and then the generic-error send failed as well.
C10_Witness ==
    \E i \in Invocations :
        /\ TextSendFailed(i)
        /\ pc[i] = "raised"
        /\ ~AfterPost(i)[2].ok

====
